---------------------------- MODULE Spec2Model ----------------------------
(***************************************************************************)
(* A model of the vscode-docker task / debug-configuration resolution      *)
(* engine:                                                                 *)
(*   - DockerDebugConfigurationProvider (platform dispatch and the         *)
(*     remove-container-after-debugging observer),                         *)
(*   - DockerBuildTaskProvider / DockerRunTaskProvider (resolveTask),      *)
(*   - TaskHelper (the dependsOn / preLaunchTask walk).                    *)
(*                                                                         *)
(* JavaScript values: `Undefined` stands for undefined, booleans that may  *)
(* be undefined are the strings "true" / "false", and Truthy is            *)
(* JavaScript's truthiness on those values.                                *)
(***************************************************************************)
EXTENDS Integers, Sequences, FiniteSets, TLC

VARIABLES
    sessions,    \* debug sessions started from a resolved configuration
    observers,   \* listeners registered with debug.onDidTerminateDebugSession
    calls,       \* the dockerClient.removeContainer calls issued so far
    escaped,     \* TRUE once an error left a session-end observer
    call,        \* the most recent resolve call: its input and its outcome
    allTasks,    \* workspace.getConfiguration('tasks').tasks
    walk         \* the running recursiveFindTaskByType call

vars == <<sessions, observers, calls, escaped, call, allTasks, walk>>

-----------------------------------------------------------------------------
(* Bounds *)

MaxSessions == 2

MaxTasks == 2

MaxDepth == 5

MaxHint == 3

MaxCalls == 3

-----------------------------------------------------------------------------
(* JavaScript values *)

Undefined == "undefined"

Truthy(v) == v \notin {Undefined, "", "false"}

Bag == "bag"

PlatformTags == {"netCore", "node", "unknown", Undefined}

\* A DockerDebugConfiguration / task definition as far as platform dispatch reads it.
PlatformInputs ==
    [platform : PlatformTags, netCore : {Undefined, Bag}, node : {Undefined, Bag}]

\* What a platform helper's resolveDebugConfiguration returns: no configuration
\* (debugging was cancelled) or a configuration carrying the two transient fields.
NoResult ==
    [defined |-> FALSE, removeContainerAfterDebug |-> Undefined,
     containerNameToKill |-> Undefined]

Resolved(removeContainerAfterDebug, containerNameToKill) ==
    [defined |-> TRUE, removeContainerAfterDebug |-> removeContainerAfterDebug,
     containerNameToKill |-> containerNameToKill]

\* removeContainerAfterDebug unset, false and true; the container name absent,
\* empty and set, with two container names among them.
HelperResults ==
    { NoResult,
      Resolved(Undefined, Undefined), Resolved(Undefined, ""),
      Resolved("false", "c1"), Resolved("true", ""),
      Resolved(Undefined, "c1"), Resolved("true", "c2") }

UnrecognizedPlatform == "Unrecognized platform"

UnableToDetermineScope == "Unable to determine task scope"

-----------------------------------------------------------------------------
(* DockerDebugConfigurationProvider *)

determineDebugPlatform(debugConfiguration) ==
    IF debugConfiguration.platform = "netCore" \/ debugConfiguration.netCore # Undefined
    THEN "netCore"
    ELSE IF debugConfiguration.platform = "node" \/ debugConfiguration.node # Undefined
    THEN "node"
    ELSE "unknown"

\* The switch of resolveDebugConfigurationInternal: which helper is awaited, or
\* the error thrown; `helperResult` is what the awaited helper returns.
resolveDebugSwitchFallsThrough(debugPlatform, helperResult) ==
    IF debugPlatform = "netCore"
    THEN [threw |-> FALSE, error |-> "", helper |-> "netCore", result |-> helperResult]
    ELSE [threw |-> FALSE, error |-> "", helper |-> "node", result |-> helperResult]

resolveDebugSwitch(debugPlatform, helperResult) ==
    CASE debugPlatform = "netCore" ->
           [threw |-> FALSE, error |-> "", helper |-> "netCore", result |-> helperResult]
      [] debugPlatform = "node" ->
           [threw |-> FALSE, error |-> "", helper |-> "node", result |-> helperResult]
      [] OTHER ->
           [threw |-> TRUE, error |-> UnrecognizedPlatform, helper |-> "none",
            result |-> NoResult]

\* The condition under which registerRemoveContainerAfterDebugging registers.
ShouldRegisterOnlyWhenTrue(debugConfiguration) ==
    /\ debugConfiguration.defined
    /\ Truthy(debugConfiguration.removeContainerAfterDebug)
    /\ Truthy(debugConfiguration.containerNameToKill)

ShouldRegisterWithoutUndefinedGuard(debugConfiguration) ==
    \/ ~debugConfiguration.defined
    \/ /\ \/ debugConfiguration.removeContainerAfterDebug = Undefined
          \/ Truthy(debugConfiguration.removeContainerAfterDebug)
       /\ Truthy(debugConfiguration.containerNameToKill)

AfterRegisterLeavesUnset(debugConfiguration) == debugConfiguration

ShouldRegister(debugConfiguration) ==
    /\ debugConfiguration.defined
    /\ \/ debugConfiguration.removeContainerAfterDebug = Undefined
       \/ Truthy(debugConfiguration.removeContainerAfterDebug)
    /\ Truthy(debugConfiguration.containerNameToKill)

\* The configuration object as registerRemoveContainerAfterDebugging leaves it.
AfterRegister(debugConfiguration) ==
    IF ShouldRegister(debugConfiguration)
    THEN [debugConfiguration EXCEPT !.removeContainerAfterDebug = "true"]
    ELSE debugConfiguration

\* The test the observer makes on a terminated session's configuration.
ObserverMatchesAnyContainer(configuration, watch) ==
    /\ Truthy(configuration.removeContainerAfterDebug)
    /\ Truthy(configuration.containerNameToKill)

ObserverMatches(configuration, watch) ==
    /\ Truthy(configuration.removeContainerAfterDebug)
    /\ Truthy(configuration.containerNameToKill)
    /\ configuration.containerNameToKill = watch

\* What the observer does once its removeContainer call has settled.
AfterRemoveNoCatch(outcome) ==
    IF outcome = "ok"
    THEN [dispose |-> TRUE, escapes |-> FALSE]
    ELSE [dispose |-> FALSE, escapes |-> TRUE]

AfterRemoveForgetsDispose(outcome) ==
    IF outcome = "ok"
    THEN [dispose |-> TRUE, escapes |-> FALSE]
    ELSE [dispose |-> FALSE, escapes |-> FALSE]

AfterRemove(outcome) ==
    IF outcome = "ok"
    THEN [dispose |-> TRUE, escapes |-> FALSE]   \* disposable.dispose() after the await
    ELSE [dispose |-> TRUE, escapes |-> FALSE]   \* catch { disposable.dispose(); }

\* The configuration a session carries: the one resolveDebugConfiguration
\* returned, as registerRemoveContainerAfterDebugging left it.
Configuration(s) == AfterRegister(sessions[s].resolved)

\* The removeContainer calls the registered observers issue when session s
\* terminates.
IssuedOnTerminate(s) ==
    {[observer |-> o, session |-> s, name |-> observers[o].watch, force |-> TRUE,
      state |-> "pending"] :
        o \in {x \in 1..Len(observers) :
                  /\ observers[x].registered
                  /\ ObserverMatches(Configuration(s), observers[x].watch)}}

ResolveDebugConfiguration(debugConfiguration, helperResult) ==
    LET debugPlatform == determineDebugPlatform(debugConfiguration)
        r == resolveDebugSwitch(debugPlatform, helperResult)
    IN  /\ Len(sessions) < MaxSessions
        /\ IF r.threw
           THEN UNCHANGED <<sessions, observers>>
           ELSE /\ sessions' =
                        IF r.result.defined
                        THEN Append(sessions,
                                 [resolved |-> r.result, terminated |-> FALSE])
                        ELSE sessions
                /\ observers' =
                        IF ShouldRegister(r.result)
                        THEN Append(observers,
                                 [watch |-> r.result.containerNameToKill,
                                  session |-> Len(sessions) + 1,
                                  registered |-> TRUE])
                        ELSE observers
        /\ UNCHANGED <<calls, escaped, allTasks, walk>>

\* The host fires onDidTerminateDebugSession for session s: every registered
\* observer runs up to its await.
TerminateDebugSession(s) ==
    /\ s \in 1..Len(sessions)
    /\ ~sessions[s].terminated
    /\ sessions' = [sessions EXCEPT ![s].terminated = TRUE]
    /\ calls' = calls \cup IssuedOnTerminate(s)
    /\ UNCHANGED <<observers, escaped, call, allTasks, walk>>

\* A pending removeContainer call settles and its observer resumes.
RemoveContainerSettles(c, outcome) ==
    /\ c \in calls
    /\ c.state = "pending"
    /\ calls' = (calls \ {c}) \cup {[c EXCEPT !.state = outcome]}
    /\ observers' =
          IF AfterRemove(outcome).dispose
          THEN [observers EXCEPT ![c.observer].registered = FALSE]
          ELSE observers
    /\ escaped' = (escaped \/ AfterRemove(outcome).escapes)
    /\ UNCHANGED <<sessions, call, allTasks, walk>>

\* The object a platform helper's resolveDebugConfiguration returns is a new
\* one, not the configuration it was given.
HelperResultRef == "result"

\* registerRemoveContainerAfterDebugging assigns to the object it is given.
registerRemoveObjects(objects, ref) == [objects EXCEPT ![ref] = AfterRegister(@)]

-----------------------------------------------------------------------------
(* CommandLineBuilder: a command line is a sequence of tokens, a token the   *)
(* sequence of the strings it is concatenated from.                          *)

Token(text) == <<text>>

Absent == [defined |-> FALSE, items |-> <<>>]

Some(items) == [defined |-> TRUE, items |-> items]

create(a, b, c) == <<Token(a), Token(b), Token(c)>>

withFlagArg(line, flag, present) ==
    IF present THEN Append(line, Token(flag)) ELSE line

withNamedArg(line, name, value) ==
    IF Truthy(value) THEN line \o <<Token(name), Token(value)>> ELSE line

RECURSIVE withEach(_, _, _)
withEach(line, flag, tokens) ==
    IF tokens = <<>> THEN line
    ELSE withEach(line \o <<Token(flag), Head(tokens)>>, flag, Tail(tokens))

KeyValueToken(entry) == <<entry[1], "=", entry[2]>>

withKeyValueArgs(line, flag, mapping) ==
    withEach(line, flag, [i \in 1..Len(mapping.items) |-> KeyValueToken(mapping.items[i])])

withQuotedArg(line, value) ==
    IF Truthy(value) THEN Append(line, Token(value)) ELSE line

withArgs(line, value) == line \o value.items

VolumeToken(volume) ==
    <<volume.localPath, ":", volume.containerPath>>
        \o (IF Truthy(volume.permissions) THEN <<":", volume.permissions>> ELSE <<>>)

PortToken(port) ==
    (IF Truthy(port.hostPort) THEN <<port.hostPort, ":">> ELSE <<>>)
        \o <<port.containerPort>>
        \o (IF Truthy(port.protocol) THEN <<"/", port.protocol>> ELSE <<>>)

ExtraHostToken(extraHost) == <<extraHost.hostname, ":", extraHost.ip>>

\* The formatter handed to withArrayArgs, by name; without one the item itself
\* is the token.
Format(formatter, item) ==
    CASE formatter = "volume" -> VolumeToken(item)
      [] formatter = "port" -> PortToken(item)
      [] formatter = "extraHost" -> ExtraHostToken(item)
      [] OTHER -> Token(item)

withArrayArgs(line, flag, list, formatter) ==
    withEach(line, flag,
             [i \in 1..Len(list.items) |-> Format(formatter, list.items[i])])

-----------------------------------------------------------------------------
(* DockerBuildTaskProvider / DockerRunTaskProvider *)

determineTaskPlatform(definition) ==
    IF definition.platform = "netCore" \/ definition.netCore # Undefined
    THEN "netCore"
    ELSE IF definition.platform = "node" \/ definition.node # Undefined
    THEN "node"
    ELSE "unknown"

\* resolveTaskInternal up to its command line: the scope test, then the platform
\* switch, which awaits a helper or throws.
resolveTaskSwitchPlatformFirst(scope, taskPlatform) ==
    CASE taskPlatform = "netCore" /\ scope # Undefined ->
            [threw |-> FALSE, error |-> "", helper |-> "netCore"]
      [] taskPlatform = "node" /\ scope # Undefined ->
            [threw |-> FALSE, error |-> "", helper |-> "node"]
      [] taskPlatform \in {"netCore", "node"} ->
            [threw |-> TRUE, error |-> UnableToDetermineScope, helper |-> "none"]
      [] OTHER ->
            [threw |-> TRUE, error |-> UnrecognizedPlatform, helper |-> "none"]

resolveTaskSwitch(scope, taskPlatform) ==
    IF scope # Undefined
    THEN CASE taskPlatform = "netCore" ->
                [threw |-> FALSE, error |-> "", helper |-> "netCore"]
           [] taskPlatform = "node" ->
                [threw |-> FALSE, error |-> "", helper |-> "node"]
           [] OTHER ->
                [threw |-> TRUE, error |-> UnrecognizedPlatform, helper |-> "none"]
    ELSE [threw |-> TRUE, error |-> UnableToDetermineScope, helper |-> "none"]

resolveBuildCommandLineContextFirst(options) ==
    LET l0 == create("docker", "build", "--rm")
        l1 == withQuotedArg(l0, options.context)
        l2 == withFlagArg(l1, "--pull", Truthy(options.pull))
        l3 == withNamedArg(l2, "-f", options.dockerfile)
        l4 == withKeyValueArgs(l3, "--build-arg", options.args)
        l5 == withKeyValueArgs(l4, "--label", options.labels)
        l6 == withNamedArg(l5, "-t", options.tag)
    IN  withNamedArg(l6, "--target", options.target)

resolveBuildCommandLineReversesArgs(options) ==
    LET n == Len(options.args.items)
        reversed == Some([i \in 1..n |-> options.args.items[n + 1 - i]])
        l0 == create("docker", "build", "--rm")
        l1 == withFlagArg(l0, "--pull", Truthy(options.pull))
        l2 == withNamedArg(l1, "-f", options.dockerfile)
        l3 == withKeyValueArgs(l2, "--build-arg", reversed)
        l4 == withKeyValueArgs(l3, "--label", options.labels)
        l5 == withNamedArg(l4, "-t", options.tag)
        l6 == withNamedArg(l5, "--target", options.target)
    IN  withQuotedArg(l6, options.context)

resolveBuildCommandLine(options) ==
    LET l0 == create("docker", "build", "--rm")
        l1 == withFlagArg(l0, "--pull", Truthy(options.pull))
        l2 == withNamedArg(l1, "-f", options.dockerfile)
        l3 == withKeyValueArgs(l2, "--build-arg", options.args)
        l4 == withKeyValueArgs(l3, "--label", options.labels)
        l5 == withNamedArg(l4, "-t", options.tag)
        l6 == withNamedArg(l5, "--target", options.target)
    IN  withQuotedArg(l6, options.context)

PublishAllPortsOnlyWhenTrue(runOptions) == Truthy(runOptions.portsPublishAll)

PublishAllPorts(runOptions) ==
    \/ Truthy(runOptions.portsPublishAll)
    \/ /\ runOptions.portsPublishAll = Undefined
       /\ (~runOptions.ports.defined \/ Len(runOptions.ports.items) < 1)

resolveRunCommandLine(runOptions) ==
    LET l0 == create("docker", "run", "-dt")
        l1 == withFlagArg(l0, "-P", PublishAllPorts(runOptions))
        l2 == withNamedArg(l1, "--name", runOptions.containerName)
        l3 == withNamedArg(l2, "--network", runOptions.network)
        l4 == withNamedArg(l3, "--network-alias", runOptions.networkAlias)
        l5 == withKeyValueArgs(l4, "-e", runOptions.env)
        l6 == withArrayArgs(l5, "--env-file", runOptions.envFiles, "none")
        l7 == withKeyValueArgs(l6, "--label", runOptions.labels)
        l8 == withArrayArgs(l7, "-v", runOptions.volumes, "volume")
        l9 == withArrayArgs(l8, "-p", runOptions.ports, "port")
        l10 == withArrayArgs(l9, "--add-host", runOptions.extraHosts, "extraHost")
        l11 == withNamedArg(l10, "--entrypoint", runOptions.entrypoint)
        l12 == withQuotedArg(l11, runOptions.image)
    IN  withArgs(l12, runOptions.command)

\* Build options a platform helper may resolve to.
EmptyBuildOptions ==
    [pull |-> Undefined, dockerfile |-> Undefined, args |-> Absent, labels |-> Absent,
     tag |-> Undefined, target |-> Undefined, context |-> Undefined]

FullBuildOptions ==
    [EmptyBuildOptions EXCEPT !.pull = "true", !.dockerfile = "Dockerfile",
                              !.args = Some(<< <<"A", "1">>, <<"B", "2">> >>),
                              !.labels = Some(<< <<"L", "x">> >>),
                              !.tag = "app:dev", !.target = "base", !.context = "."]

\* No field, some fields, every field, every field but one, and one field alone.
BuildOptionsSamples ==
    { EmptyBuildOptions,
      [EmptyBuildOptions EXCEPT !.dockerfile = "Dockerfile", !.tag = "app:latest",
                                !.context = "."],
      FullBuildOptions }
        \cup {[FullBuildOptions EXCEPT ![f] = EmptyBuildOptions[f]] :
                  f \in DOMAIN FullBuildOptions}
        \cup {[EmptyBuildOptions EXCEPT ![f] = FullBuildOptions[f]] :
                  f \in DOMAIN FullBuildOptions}

\* Run options a platform helper may resolve to.
EmptyRunOptions ==
    [command |-> Absent, containerName |-> Undefined, entrypoint |-> Undefined,
     env |-> Absent, envFiles |-> Absent, extraHosts |-> Absent, image |-> Undefined,
     labels |-> Absent, network |-> Undefined, networkAlias |-> Undefined,
     ports |-> Absent, portsPublishAll |-> Undefined, volumes |-> Absent]

FullRunOptions ==
      [EmptyRunOptions EXCEPT
          !.command = Some(<<Token("npm"), Token("start")>>),
          !.containerName = "app-dev", !.entrypoint = "sh",
          !.env = Some(<< <<"E", "1">> >>), !.envFiles = Some(<<"a.env">>),
          !.extraHosts = Some(<<[hostname |-> "h", ip |-> "10.0.0.1"]>>),
          !.image = "app:dev", !.labels = Some(<< <<"L", "x">> >>),
          !.network = "net", !.networkAlias = "alias",
          !.ports = Some(<<[hostPort |-> "8080", containerPort |-> "80",
                            protocol |-> "tcp"]>>),
          !.portsPublishAll = "false",
          !.volumes = Some(<<[localPath |-> "/src", containerPath |-> "/app",
                              permissions |-> "ro"]>>)]

\* No field, some fields, every field, every field but one, one field alone,
\* and the ways portsPublishAll and ports combine.
RunOptionsSamples ==
    { EmptyRunOptions,
      [EmptyRunOptions EXCEPT !.containerName = "app-dev", !.image = "app:dev"],
      FullRunOptions,
      [EmptyRunOptions EXCEPT !.ports = Some(<<>>)],
      [EmptyRunOptions EXCEPT !.portsPublishAll = "true"],
      [FullRunOptions EXCEPT !.portsPublishAll = "true"] }
        \cup {[FullRunOptions EXCEPT ![f] = EmptyRunOptions[f]] :
                  f \in DOMAIN FullRunOptions}
        \cup {[EmptyRunOptions EXCEPT ![f] = FullRunOptions[f]] :
                  f \in DOMAIN FullRunOptions}

TaskKinds == {"docker-build", "docker-run"}

\* Objects are held by reference: a heap maps each reference to the value of
\* the object behind it.  cloneObject returns a reference to a new object
\* with the same value.
cloneObject(objects, ref) ==
    [objects |-> ("clone" :> objects[ref]) @@ objects, ref |-> "clone"]

\* The caller's task.definition: the fields platform dispatch reads and the
\* dockerBuild / dockerRun bag, which may be absent.
TaskObjects(definition, dockerOptions) ==
    "task.definition" :> [definition |-> definition, dockerOptions |-> dockerOptions]

DockerOptionsInputs(kind) ==
    IF kind = "docker-build"
    THEN {Absent, Some([EmptyBuildOptions EXCEPT !.tag = "mine"])}
    ELSE {Absent, Some([EmptyRunOptions EXCEPT !.image = "mine"])}

\* The assignments resolveTaskInternal makes to `definition`: the clone, the
\* default bag, and the bag the helper resolved when the switch did not throw.
resolveTaskObjectsInPlace(kind, objects, threw, helperOptions) ==
    LET c == [objects |-> objects, ref |-> "task.definition"]
        empty == IF kind = "docker-build" THEN EmptyBuildOptions ELSE EmptyRunOptions
        defaulted ==
            [c.objects EXCEPT ![c.ref].dockerOptions =
                IF @.defined THEN @ ELSE Some(empty)]
    IN  [objects |-> IF threw THEN defaulted
                     ELSE [defaulted EXCEPT ![c.ref].dockerOptions = Some(helperOptions)],
         ref |-> c.ref]

resolveTaskObjects(kind, objects, threw, helperOptions) ==
    LET c == cloneObject(objects, "task.definition")
        empty == IF kind = "docker-build" THEN EmptyBuildOptions ELSE EmptyRunOptions
        defaulted ==
            [c.objects EXCEPT ![c.ref].dockerOptions =
                IF @.defined THEN @ ELSE Some(empty)]
    IN  [objects |-> IF threw THEN defaulted
                     ELSE [defaulted EXCEPT ![c.ref].dockerOptions = Some(helperOptions)],
         ref |-> c.ref]

HelperOptions(kind) ==
    IF kind = "docker-build" THEN BuildOptionsSamples ELSE RunOptionsSamples

ResolveTask(kind, definition, dockerOptions, scope, helperOptions) ==
    LET taskPlatform == determineTaskPlatform(definition)
        r == resolveTaskSwitch(scope, taskPlatform)
        objects == TaskObjects(definition, dockerOptions)
        after == resolveTaskObjects(kind, objects, r.threw, helperOptions)
        commandLine ==
            IF r.threw THEN <<>>
            ELSE IF kind = "docker-build"
            THEN resolveBuildCommandLine(helperOptions)
            ELSE resolveRunCommandLine(helperOptions)
    IN  /\ call' = [kind |-> kind, input |-> definition, scope |-> scope,
                    platform |-> taskPlatform, threw |-> r.threw, error |-> r.error,
                    helper |-> r.helper, registered |-> FALSE,
                    commandLine |-> commandLine, options |-> helperOptions,
                    before |-> objects["task.definition"],
                    after |-> after.objects["task.definition"],
                    resolved |-> after.objects[after.ref]]
        /\ UNCHANGED <<sessions, observers, calls, escaped, allTasks, walk>>

-----------------------------------------------------------------------------
(* TaskHelper: the preLaunchTask / dependsOn walk.  A node is referred to by  *)
(* its index in allTasks; NotFound is undefined, DebugNode the debug          *)
(* configuration the walk was started from, NoRet the value of walk.ret      *)
(* while no recursive call has returned.                                      *)

NotFound == 0

DebugNode == -1

NoRet == -2

Labels == {"a", "b"}

TaskTypes == {"docker-build", "docker-run"}

NoDependsOn == [kind |-> "none", labels |-> <<>>, type |-> ""]

\* dependsOn lists of up to two labels, no label twice.
LabelLists ==
    {l \in UNION {[1..n -> Labels] : n \in {0, 1, 2}} :
        \A i, j \in 1..Len(l) : l[i] = l[j] => i = j}

DependsOnValues ==
    {NoDependsOn}
        \cup {[kind |-> "labels", labels |-> l, type |-> ""] : l \in LabelLists}
        \cup {[kind |-> "type", labels |-> <<>>, type |-> t] : t \in TaskTypes}

Tasks == [label : Labels, type : TaskTypes, dependsOn : DependsOnValues]

TaskLists == UNION {[1..n -> Tasks] : n \in 0..MaxTasks}

NoDebug == [preLaunchTask |-> Undefined, type |-> ""]

DebugConfigurations ==
    [preLaunchTask : {Undefined} \cup Labels, type : {"docker", "docker-run"}]

NodeOf(ref) ==
    IF ref = DebugNode
    THEN [preLaunchTask |-> walk.debug.preLaunchTask, type |-> walk.debug.type,
          dependsOn |-> NoDependsOn]
    ELSE [preLaunchTask |-> Undefined, type |-> allTasks[ref].type,
          dependsOn |-> allTasks[ref].dependsOn]

Min(S) == CHOOSE x \in S : \A y \in S : x <= y

findTaskByLabelComparesType(tasks, label) ==
    LET hits == {i \in 1..Len(tasks) : tasks[i].type = label}
    IN  IF hits = {} THEN NotFound ELSE Min(hits)

findTaskByLabelTakesLast(tasks, label) ==
    LET hits == {i \in 1..Len(tasks) : tasks[i].label = label}
    IN  IF hits = {} THEN NotFound ELSE CHOOSE x \in hits : \A y \in hits : y <= x

findTaskByLabel(tasks, label) ==
    LET hits == {i \in 1..Len(tasks) : tasks[i].label = label}
    IN  IF hits = {} THEN NotFound ELSE Min(hits)

findTaskByTypeTakesLast(tasks, type) ==
    LET hits == {i \in 1..Len(tasks) : tasks[i].type = type}
    IN  IF hits = {} THEN NotFound ELSE CHOOSE x \in hits : \A y \in hits : y <= x

findTaskByType(tasks, type) ==
    LET hits == {i \in 1..Len(tasks) : tasks[i].type = type}
    IN  IF hits = {} THEN NotFound ELSE Min(hits)

\* What one activation of recursiveFindTaskByType does with a node that is not
\* undefined: return a value, return what a recursive call returns ("tail"), or
\* start the loop over the dependsOn labels.
VisitNodeComparesTypeFirst(type, ref) ==
    LET node == NodeOf(ref)
    IN  IF node.type = type
        THEN [op |-> "return", value |-> ref]
        ELSE IF Truthy(node.preLaunchTask)
        THEN [op |-> "tail", value |-> findTaskByLabel(allTasks, node.preLaunchTask)]
        ELSE IF node.dependsOn.kind = "labels"
        THEN [op |-> "loop", value |-> NotFound]
        ELSE IF node.dependsOn.kind = "type"
        THEN [op |-> "tail", value |-> findTaskByType(allTasks, node.dependsOn.type)]
        ELSE [op |-> "return", value |-> NotFound]

VisitNodeIgnoresType(type, ref) ==
    LET node == NodeOf(ref)
    IN  IF Truthy(node.preLaunchTask)
        THEN [op |-> "tail", value |-> findTaskByLabel(allTasks, node.preLaunchTask)]
        ELSE IF node.dependsOn.kind = "none"
        THEN [op |-> "return", value |-> ref]
        ELSE IF node.dependsOn.kind = "labels"
        THEN [op |-> "loop", value |-> NotFound]
        ELSE [op |-> "tail", value |-> findTaskByType(allTasks, node.dependsOn.type)]

VisitNode(type, ref) ==
    LET node == NodeOf(ref)
    IN  IF Truthy(node.preLaunchTask)
        THEN [op |-> "tail", value |-> findTaskByLabel(allTasks, node.preLaunchTask)]
        ELSE IF node.type = type
        THEN [op |-> "return", value |-> ref]
        ELSE IF node.dependsOn.kind = "labels"
        THEN [op |-> "loop", value |-> NotFound]
        ELSE IF node.dependsOn.kind = "type"
        THEN [op |-> "tail", value |-> findTaskByType(allTasks, node.dependsOn.type)]
        ELSE [op |-> "return", value |-> NotFound]

VisitWithoutUndefinedGuard(type, ref) ==
    IF ref = NotFound
    THEN [op |-> "raise", value |-> NotFound]
    ELSE VisitNode(type, ref)

Visit(type, ref) ==
    IF ref = NotFound
    THEN [op |-> "return", value |-> NotFound]     \* if (!node) return undefined
    ELSE VisitNode(type, ref)

\* The test the dependsOn loop makes on what the recursive call returned:
\* if (next) return next.
LoopKeepsSearching(next) == FALSE

LoopReturns(next) == next # NotFound

Frame(ref) == [node |-> ref, phase |-> "enter", i |-> 0]

Top == walk.stack[Len(walk.stack)]

Pop == SubSeq(walk.stack, 1, Len(walk.stack) - 1)

ReplaceTop(frame) == [walk.stack EXCEPT ![Len(walk.stack)] = frame]

\* One lookup is followed from its call to its return.
StartWalk(entry, type, debugConfiguration, name, ref) ==
    /\ walk.status = "idle"
    /\ walk' = [status |-> "running", entry |-> entry, type |-> type,
                debug |-> debugConfiguration, name |-> name, start |-> ref,
                stack |-> <<Frame(ref)>>, ret |-> NoRet, result |-> NotFound]
    /\ UNCHANGED <<sessions, observers, calls, escaped, call, allTasks>>

getAssociatedDockerRunTask(debugConfiguration) ==
    StartWalk("run", "docker-run", debugConfiguration, "", DebugNode)

getAssociatedDockerBuildTask(name) ==
    StartWalk("build", "docker-build", NoDebug, name, findTaskByLabel(allTasks, name))

recursiveFindTaskByType(type, ref) ==
    StartWalk("direct", type, NoDebug, "", ref)

\* The newest activation runs from its entry to its first recursive call or to
\* its return.
WalkEnter ==
    /\ walk.status = "running"
    /\ walk.ret = NoRet
    /\ Top.phase = "enter"
    /\ LET v == Visit(walk.type, Top.node)
           labels == NodeOf(Top.node).dependsOn.labels
       IN  CASE v.op = "raise" ->
                  walk' = [walk EXCEPT !.status = "raised"]
             [] v.op = "return" ->
                  walk' = [walk EXCEPT !.stack = Pop, !.ret = v.value]
             [] v.op = "tail" ->
                  /\ Len(walk.stack) < MaxDepth
                  /\ walk' = [walk EXCEPT !.stack =
                        Append(ReplaceTop([Top EXCEPT !.phase = "tail"]),
                               Frame(v.value))]
             [] v.op = "loop" ->
                  IF labels = <<>>
                  THEN walk' = [walk EXCEPT !.stack = Pop, !.ret = NotFound]
                  ELSE /\ Len(walk.stack) < MaxDepth
                       /\ walk' = [walk EXCEPT !.stack =
                             Append(ReplaceTop([Top EXCEPT !.phase = "loop", !.i = 1]),
                                    Frame(findTaskByLabel(allTasks, labels[1])))]
    /\ UNCHANGED <<sessions, observers, calls, escaped, call, allTasks>>

\* A recursive call has returned walk.ret: its caller goes on, or the walk ends.
WalkResume ==
    /\ walk.status = "running"
    /\ walk.ret # NoRet
    /\ IF walk.stack = <<>>
       THEN walk' = [walk EXCEPT !.status = "returned", !.result = walk.ret,
                                 !.ret = NoRet]
       ELSE LET labels == NodeOf(Top.node).dependsOn.labels
            IN  IF Top.phase = "tail" \/ LoopReturns(walk.ret)
                THEN walk' = [walk EXCEPT !.stack = Pop]
                ELSE IF Top.i < Len(labels)
                THEN walk' = [walk EXCEPT !.ret = NoRet, !.stack =
                        Append(ReplaceTop([Top EXCEPT !.i = Top.i + 1]),
                               Frame(findTaskByLabel(allTasks, labels[Top.i + 1])))]
                ELSE walk' = [walk EXCEPT !.stack = Pop, !.ret = NotFound]
    /\ UNCHANGED <<sessions, observers, calls, escaped, call, allTasks>>

NoCall ==
    [kind |-> "none", input |-> [platform |-> Undefined, netCore |-> Undefined,
                                 node |-> Undefined],
     scope |-> Undefined, platform |-> "unknown", threw |-> FALSE, error |-> "",
     helper |-> "none", helperResult |-> NoResult, registered |-> FALSE,
     commandLine |-> <<>>,
     options |-> Absent, before |-> Absent, after |-> Absent, resolved |-> Absent]

NoWalk ==
    [status |-> "idle", entry |-> "none", type |-> "", debug |-> NoDebug,
     name |-> "", start |-> NotFound, stack |-> <<>>, ret |-> NoRet,
     result |-> NotFound]

Init ==
    /\ sessions = <<>>
    /\ observers = <<>>
    /\ calls = {}
    /\ escaped = FALSE
    /\ call = NoCall
    /\ allTasks = <<>>
    /\ walk = NoWalk

ResolveDebug ==
    \E debugConfiguration \in PlatformInputs, helperResult \in HelperResults :
        /\ ResolveDebugConfiguration(debugConfiguration, helperResult)
        /\ UNCHANGED call

Terminate == \E s \in 1..MaxSessions : TerminateDebugSession(s)

Settle ==
    \E c \in calls, outcome \in {"ok", "failed"} : RemoveContainerSettles(c, outcome)

Next == ResolveDebug \/ Terminate \/ Settle

Spec == Init /\ [][Next]_vars

FairSpec == Spec /\ WF_vars(Settle)

-----------------------------------------------------------------------------
(* One resolution request, recorded with its input and its outcome *)

ResolveDebugCall ==
    /\ call.kind = "none"
    /\ \E debugConfiguration \in PlatformInputs, helperResult \in HelperResults :
        /\ ResolveDebugConfiguration(debugConfiguration, helperResult)
        /\ LET debugPlatform == determineDebugPlatform(debugConfiguration)
               r == resolveDebugSwitch(debugPlatform, helperResult)
               objects == "debugConfiguration" :> debugConfiguration
               after == IF r.threw THEN objects
                        ELSE registerRemoveObjects(
                                 (HelperResultRef :> r.result) @@ objects,
                                 HelperResultRef)
           IN  call' = [kind |-> "debug", input |-> debugConfiguration,
                        scope |-> Undefined, platform |-> debugPlatform,
                        threw |-> r.threw, error |-> r.error, helper |-> r.helper,
                        helperResult |-> helperResult,
                        registered |-> Len(observers') > Len(observers),
                        commandLine |-> <<>>, options |-> Absent,
                        before |-> objects["debugConfiguration"],
                        after |-> after["debugConfiguration"],
                        resolved |-> IF r.threw THEN NoResult
                                     ELSE after[HelperResultRef]]

ResolveTaskCall ==
    \E kind \in TaskKinds, definition \in PlatformInputs,
       scope \in {Undefined, "folder"} :
        \E helperOptions \in HelperOptions(kind),
           dockerOptions \in DockerOptionsInputs(kind) :
            /\ call.kind = "none"
            /\ ResolveTask(kind, definition, dockerOptions, scope, helperOptions)

NextResolve == ResolveDebugCall \/ ResolveTaskCall

SpecResolve == Init /\ [][NextResolve]_vars

-----------------------------------------------------------------------------
(* The dependency walk over every task list within the bounds *)

InitWalk ==
    /\ sessions = <<>>
    /\ observers = <<>>
    /\ calls = {}
    /\ escaped = FALSE
    /\ call = NoCall
    /\ allTasks \in TaskLists
    /\ walk = NoWalk

FindRunTask ==
    \E debugConfiguration \in DebugConfigurations :
        getAssociatedDockerRunTask(debugConfiguration)

FindBuildTask == \E name \in Labels : getAssociatedDockerBuildTask(name)

FindTaskByType ==
    \E type \in TaskTypes, ref \in 0..MaxTasks :
        /\ ref <= Len(allTasks)
        /\ recursiveFindTaskByType(type, ref)

NextWalk == FindRunTask \/ FindBuildTask \/ FindTaskByType \/ WalkEnter \/ WalkResume

SpecWalk == InitWalk /\ [][NextWalk]_vars

-----------------------------------------------------------------------------
(* addTask on a stored task list *)

\* What addTask leaves in storage, whether it called workspaceTasks.update, and
\* what it returns.
addTaskAlwaysOverwrites(tasks, newTask, overwrite) ==
    LET existing == {i \in 1..Len(tasks) : tasks[i].label = newTask.label}
    IN  IF existing # {}
        THEN [tasks |-> [tasks EXCEPT ![Min(existing)] = newTask],
              wrote |-> TRUE, result |-> TRUE]
        ELSE [tasks |-> Append(tasks, newTask), wrote |-> TRUE, result |-> TRUE]

addTaskAlwaysAppends(tasks, newTask, overwrite) ==
    [tasks |-> Append(tasks, newTask), wrote |-> TRUE, result |-> TRUE]

addTaskOverwriteMovesToEnd(tasks, newTask, overwrite) ==
    LET existing == {i \in 1..Len(tasks) : tasks[i].label = newTask.label}
        first == Min(existing)
    IN  IF existing # {}
        THEN IF Truthy(overwrite)
             THEN [tasks |-> Append(SubSeq(tasks, 1, first - 1)
                                       \o SubSeq(tasks, first + 1, Len(tasks)),
                                    newTask),
                   wrote |-> TRUE, result |-> TRUE]
             ELSE [tasks |-> tasks, wrote |-> FALSE, result |-> FALSE]
        ELSE [tasks |-> Append(tasks, newTask), wrote |-> TRUE, result |-> TRUE]

addTask(tasks, newTask, overwrite) ==
    LET existing == {i \in 1..Len(tasks) : tasks[i].label = newTask.label}
    IN  IF existing # {}                                  \* existingTaskIndex >= 0
        THEN IF Truthy(overwrite)
             THEN [tasks |-> [tasks EXCEPT ![Min(existing)] = newTask],
                   wrote |-> TRUE, result |-> TRUE]
             ELSE [tasks |-> tasks, wrote |-> FALSE, result |-> FALSE]
        ELSE [tasks |-> Append(tasks, newTask), wrote |-> TRUE, result |-> TRUE]

\* Task definitions as far as addTask reads them: it compares labels only.
StoredTasks == {t \in Tasks : t.dependsOn = NoDependsOn}

StoredTaskLists == UNION {[1..n -> StoredTasks] : n \in 0..MaxTasks}

AddTask(newTask, overwrite) ==
    LET r == addTask(allTasks, newTask, overwrite)
    IN  /\ call.kind = "none"
        /\ allTasks' = r.tasks
        /\ call' = [kind |-> "addTask", newTask |-> newTask, overwrite |-> overwrite,
                    before |-> allTasks, wrote |-> r.wrote, result |-> r.result]
        /\ UNCHANGED <<sessions, observers, calls, escaped, walk>>

InitTasks ==
    /\ sessions = <<>>
    /\ observers = <<>>
    /\ calls = {}
    /\ escaped = FALSE
    /\ call = NoCall
    /\ allTasks \in StoredTaskLists
    /\ walk = NoWalk

NextTasks ==
    /\ call.kind = "none"
    /\ \E newTask \in StoredTasks, overwrite \in {Undefined, "false", "true"} :
          AddTask(newTask, overwrite)

SpecTasks == InitTasks /\ [][NextTasks]_vars

-----------------------------------------------------------------------------
(* addTask called again and again, each call awaited before the next *)

UniqueTaskLists ==
    {tasks \in StoredTaskLists :
        \A i, j \in 1..Len(tasks) : tasks[i].label = tasks[j].label => i = j}

CallsSoFar == IF call.kind = "addTask" THEN call.n ELSE 0

AddTaskInSequence(newTask, overwrite) ==
    LET r == addTask(allTasks, newTask, overwrite)
    IN  /\ CallsSoFar < MaxCalls
        /\ allTasks' = r.tasks
        /\ call' = [kind |-> "addTask", newTask |-> newTask, overwrite |-> overwrite,
                    before |-> allTasks, wrote |-> r.wrote, result |-> r.result,
                    n |-> CallsSoFar + 1]
        /\ UNCHANGED <<sessions, observers, calls, escaped, walk>>

InitTaskSequence ==
    /\ sessions = <<>>
    /\ observers = <<>>
    /\ calls = {}
    /\ escaped = FALSE
    /\ call = NoCall
    /\ allTasks \in UniqueTaskLists
    /\ walk = NoWalk

NextTaskSequence ==
    \E newTask \in StoredTasks, overwrite \in {Undefined, "false", "true"} :
        AddTaskInSequence(newTask, overwrite)

SpecTaskSequence == InitTaskSequence /\ [][NextTaskSequence]_vars

-----------------------------------------------------------------------------
(* initializeBuildTasks / initializeRunTasks: the scaffolding entry points *)

Platforms == {".NET Core Console", "ASP.NET Core", "Node.js", "Other"}

PlatformNotSupported == "platform not supported"

\* The platform switch: a helper provides the tasks, or the call throws.
initializeSwitch(platform) ==
    CASE platform \in {".NET Core Console", "ASP.NET Core"} ->
            [threw |-> FALSE, error |-> "", helper |-> "netCore"]
      [] platform = "Node.js" ->
            [threw |-> FALSE, error |-> "", helper |-> "node"]
      [] OTHER ->
            [threw |-> TRUE, error |-> PlatformNotSupported, helper |-> "none"]

\* for (const task of tasks) { await addTask(task); }
RECURSIVE addTasksOverwriting(_, _)
addTasksOverwriting(tasks, newTasks) ==
    IF newTasks = <<>> THEN tasks
    ELSE addTasksOverwriting(addTask(tasks, Head(newTasks), "true").tasks,
                             Tail(newTasks))

RECURSIVE addTasks(_, _)
addTasks(tasks, newTasks) ==
    IF newTasks = <<>> THEN tasks
    ELSE addTasks(addTask(tasks, Head(newTasks), Undefined).tasks, Tail(newTasks))

\* The task lists a helper's provideDockerBuildTasks / provideDockerRunTasks
\* may return.
ProvidedTasks(kind) ==
    UNION {[1..n -> {t \in StoredTasks : t.type = kind}] : n \in 0..MaxTasks}

InitializeTasks(kind, platform, provided) ==
    LET r == initializeSwitch(platform)
    IN  /\ allTasks' = IF r.threw THEN allTasks ELSE addTasks(allTasks, provided)
        /\ call' = [kind |-> "initialize", provider |-> kind, platform |-> platform,
                    threw |-> r.threw, error |-> r.error, helper |-> r.helper,
                    provided |-> IF r.threw THEN <<>> ELSE provided,
                    before |-> allTasks]
        /\ UNCHANGED <<sessions, observers, calls, escaped, walk>>

NextInitialize ==
    /\ call.kind = "none"
    /\ \E kind \in TaskKinds, platform \in Platforms :
          \E provided \in ProvidedTasks(kind) :
              InitializeTasks(kind, platform, provided)

SpecInitialize == InitTasks /\ [][NextInitialize]_vars

-----------------------------------------------------------------------------
(* Image names.  Here a string is the sequence of its characters, and a value *)
(* that may be undefined is Absent or Some(value).                            *)

HintChars == {"M", "y", " ", "A", "p", "!", "7"}

Hints == UNION {[1..n -> HintChars] : n \in 0..MaxHint}

DefaultTags == {Absent, Some(<<"d", "e", "v">>), Some(<<"l", "a", "t", "e", "s", "t">>)}

\* [a-z0-9] with the i flag
IsAlphanumeric(c) == c \in {"M", "y", "A", "p", "7", "m", "a"}

toLowerCase(c) ==
    CASE c = "M" -> "m"
      [] c = "A" -> "a"
      [] OTHER -> c

getValidImageNameKeepsCase(nameHint) ==
    LET result == SelectSeq(nameHint, IsAlphanumeric)
    IN  IF Len(result) = 0 THEN <<"i", "m", "a", "g", "e">> ELSE result

getValidImageName(nameHint) ==
    LET stripped == SelectSeq(nameHint, IsAlphanumeric)
        result == [i \in 1..Len(stripped) |-> toLowerCase(stripped[i])]
    IN  IF Len(result) = 0 THEN <<"i", "m", "a", "g", "e">> ELSE result

getValidImageNameWithTag(nameHint, tag) ==
    getValidImageName(nameHint) \o <<":">> \o tag

getDefaultImageName(nameHint, tag) ==
    getValidImageNameWithTag(nameHint,
        IF tag.defined THEN tag.items ELSE <<"l", "a", "t", "e", "s", "t">>)

\* JavaScript truthiness of a string that may be undefined.
TruthyString(v) == v.defined /\ v.items # <<>>

OptionalStrings == {Absent, Some(<<>>)}

\* runOptions && runOptions.dockerRun && runOptions.dockerRun.image
RunImage(runOptions) ==
    IF runOptions.defined /\ runOptions.items.dockerRun.defined
    THEN runOptions.items.dockerRun.items.image
    ELSE Absent

\* context && context.buildDefinition && context.buildDefinition.dockerBuild
\*   && context.buildDefinition.dockerBuild.tag
BuildTag(context) ==
    IF /\ context.defined
       /\ context.items.buildDefinition.defined
       /\ context.items.buildDefinition.items.dockerBuild.defined
    THEN context.items.buildDefinition.items.dockerBuild.items.tag
    ELSE Absent

inferImageNamePrefersBuildTag(runOptions, context, defaultNameHint, defaultTag) ==
    IF TruthyString(BuildTag(context)) THEN BuildTag(context).items
    ELSE IF TruthyString(RunImage(runOptions)) THEN RunImage(runOptions).items
    ELSE getDefaultImageName(defaultNameHint, defaultTag)

inferImageName(runOptions, context, defaultNameHint, defaultTag) ==
    IF TruthyString(RunImage(runOptions)) THEN RunImage(runOptions).items
    ELSE IF TruthyString(BuildTag(context)) THEN BuildTag(context).items
    ELSE getDefaultImageName(defaultNameHint, defaultTag)

RunDefinitions ==
    {Absent, Some([dockerRun |-> Absent])}
        \cup {Some([dockerRun |-> Some([image |-> image])]) :
                  image \in OptionalStrings \cup {Some(<<"x">>)}}

RunContexts ==
    {Absent, Some([buildDefinition |-> Absent]),
     Some([buildDefinition |-> Some([dockerBuild |-> Absent])])}
        \cup {Some([buildDefinition |-> Some([dockerBuild |-> Some([tag |-> tag])])]) :
                  tag \in OptionalStrings \cup {Some(<<"y">>)}}

GetDefaultImageName(nameHint, tag) ==
    /\ call.kind = "none"
    /\ call' = [kind |-> "getDefaultImageName", nameHint |-> nameHint, tag |-> tag,
                result |-> getDefaultImageName(nameHint, tag)]
    /\ UNCHANGED <<sessions, observers, calls, escaped, allTasks, walk>>

InferImageName(runOptions, context, defaultNameHint, defaultTag) ==
    /\ call.kind = "none"
    /\ call' = [kind |-> "inferImageName", runOptions |-> runOptions,
                context |-> context, nameHint |-> defaultNameHint,
                tag |-> defaultTag,
                result |-> inferImageName(runOptions, context, defaultNameHint,
                                          defaultTag)]
    /\ UNCHANGED <<sessions, observers, calls, escaped, allTasks, walk>>

DefaultImageNameCall ==
    /\ call.kind = "none"
    /\ \E nameHint \in Hints, tag \in DefaultTags :
          GetDefaultImageName(nameHint, tag)

InferImageNameCall ==
    /\ call.kind = "none"
    /\ \E runOptions \in RunDefinitions, context \in RunContexts,
          defaultNameHint \in Hints, defaultTag \in DefaultTags :
          InferImageName(runOptions, context, defaultNameHint, defaultTag)

NextImage == DefaultImageNameCall \/ InferImageNameCall

SpecImage == Init /\ [][NextImage]_vars

-----------------------------------------------------------------------------
(* Session-end observers: claims C1 - C5 *)

CallsBy(o) == {c \in calls : c.observer = o}

CallsFor(s) == {c \in calls : c.session = s}

HasObserver(s) == \E o \in 1..Len(observers) : observers[o].session = s

\* C1: an observer issues a removal, and is unregistered, only in response to
\* a termination event that carries the container name it watches: every
\* removeContainer call is forced, names the container its observer watches,
\* and answers a session whose configuration carries that same name; and an
\* observer that is no longer registered has issued such a call, which settled.
C1_NoCrossFiring ==
    /\ \A c \in calls :
          /\ c.force
          /\ c.name = observers[c.observer].watch
          /\ Configuration(c.session).containerNameToKill = c.name
    /\ \A o \in 1..Len(observers) :
          ~observers[o].registered => \E c \in CallsBy(o) : c.state # "pending"

\* Two sessions with distinct containers, each with its observer; session 1 has
\* terminated and its removal settled: observer 1 is gone, observer 2 is still
\* registered and nothing was issued for session 2's container.
C1_Witness ==
    /\ Len(sessions) = 2
    /\ Len(observers) = 2
    /\ observers[1].session = 1
    /\ observers[2].session = 2
    /\ observers[1].watch # observers[2].watch
    /\ sessions[1].terminated
    /\ ~sessions[2].terminated
    /\ Cardinality(calls) = 1
    /\ \E c \in calls :
          c.observer = 1 /\ c.name = observers[1].watch /\ c.state # "pending"
    /\ ~observers[1].registered
    /\ observers[2].registered

\* C2: removeContainer is issued at most once for each session that ends.
C2_AtMostOncePerSession ==
    \A s \in 1..Len(sessions) : Cardinality(CallsFor(s)) <= 1

\* C3: an observer whose own session has terminated has issued a forced removal;
\* once a removal it issued has settled, with either outcome, the observer is
\* unregistered; and from some point on every observer that has issued a
\* removal is unregistered (none stays registered forever).
C3_SettledMeansUnregistered ==
    /\ \A c \in calls : c.state # "pending" => ~observers[c.observer].registered
    /\ \A o \in 1..Len(observers) :
          sessions[observers[o].session].terminated =>
              \E c \in CallsBy(o) : c.force

C3_MatchedObserverUnregistered ==
    /\ []C3_SettledMeansUnregistered
    /\ <>[](\A c \in calls : ~observers[c.observer].registered)

\* Both outcomes have happened and both observers are unregistered.
C3_Witness ==
    /\ \E c \in calls : c.state = "ok" /\ ~observers[c.observer].registered
    /\ \E c \in calls : c.state = "failed" /\ ~observers[c.observer].registered

\* C4: a session has an observer if and only if the configuration its helper
\* resolved carries a non-empty container name and removeContainerAfterDebug
\* true or unset; a session without one never has a removal issued for it.
C4_WantsCleanup(s) ==
    /\ Truthy(sessions[s].resolved.containerNameToKill)
    /\ sessions[s].resolved.removeContainerAfterDebug \in {Undefined, "true"}

C4_RegisteredIff ==
    \A s \in 1..Len(sessions) :
        /\ HasObserver(s) <=> C4_WantsCleanup(s)
        /\ ~C4_WantsCleanup(s) => CallsFor(s) = {}

\* One session opted out (explicit false) of removing the very container
\* another session's registered observer watches, and has terminated.
C4_Witness ==
    \E s, t \in 1..Len(sessions) :
        /\ sessions[s].resolved.removeContainerAfterDebug = Undefined
        /\ sessions[s].resolved.containerNameToKill = "c1"
        /\ \E o \in 1..Len(observers) :
              observers[o].session = s /\ observers[o].registered
        /\ sessions[t].resolved.removeContainerAfterDebug = "false"
        /\ sessions[t].resolved.containerNameToKill = "c1"
        /\ ~HasObserver(t)
        /\ sessions[t].terminated

\* C5: no error leaves a session-end observer, and an observer one of whose
\* removals has failed issues no further removal.
C5_IssuedBy(o) == {c.session : c \in CallsBy(o)}

C5_FailureSwallowed ==
    /\ [](escaped = FALSE)
    /\ [][\A o \in 1..Len(observers) :
             (\E c \in CallsBy(o) : c.state = "failed")
                 => C5_IssuedBy(o)' = C5_IssuedBy(o)]_vars

\* A removal failed, and a matching session terminated without that observer
\* issuing another one.
C5_Witness ==
    /\ ~escaped
    /\ \E c \in calls :
          /\ c.state = "failed"
          /\ \E s \in 1..Len(sessions) :
                /\ s # c.session
                /\ sessions[s].terminated
                /\ Configuration(s).containerNameToKill = c.name
                /\ CallsBy(c.observer) \cap CallsFor(s) = {}

-----------------------------------------------------------------------------
(* Platform dispatch: claims C6, C7 *)

\* C6: with an explicit platform tag (netCore or node) the classification is
\* the tag, whatever options bags are present; without one it is the platform
\* of the only options bag present, and unknown when there is none.
C6_ClassifiesAsClaimed ==
    call.kind # "none" =>
        LET tagged == call.input.platform \in {"netCore", "node"}
            netCoreBag == call.input.netCore # Undefined
            nodeBag == call.input.node # Undefined
        IN  /\ tagged => call.platform = call.input.platform
            /\ (~tagged /\ netCoreBag /\ ~nodeBag) => call.platform = "netCore"
            /\ (~tagged /\ nodeBag /\ ~netCoreBag) => call.platform = "node"
            /\ (~tagged /\ ~netCoreBag /\ ~nodeBag) => call.platform = "unknown"

C7_NoSideEffects ==
    /\ call.threw
    /\ ~call.registered
    /\ observers = <<>>
    /\ sessions = <<>>
    /\ call.helper = "none"
    /\ call.commandLine = <<>>

\* C7 as claimed: a request whose platform classifies as unknown aborts with the
\* unrecognized-platform error, having registered no observer, invoked no
\* helper and produced no command line.
C7_UnknownAbortsUnrecognized ==
    (call.kind # "none" /\ call.platform = "unknown") =>
        /\ C7_NoSideEffects
        /\ call.error = UnrecognizedPlatform

\* C7 as amended: such a request aborts without side effects; the error is the
\* unrecognized-platform error for resolveDebugConfiguration and for resolveTask
\* on a task with a scope, and the task-scope error for resolveTask on a task
\* whose scope is undefined.
C7_UnknownAborts ==
    (call.kind # "none" /\ call.platform = "unknown") =>
        /\ C7_NoSideEffects
        /\ call.error = (IF call.kind = "debug" \/ call.scope # Undefined
                         THEN UnrecognizedPlatform ELSE UnableToDetermineScope)

C7_Witness ==
    /\ call.kind = "docker-build"
    /\ call.platform = "unknown"
    /\ call.scope # Undefined
    /\ call.error = UnrecognizedPlatform

-----------------------------------------------------------------------------
(* The dependency walk: claims C8 - C10 *)

UniqueLabels ==
    \A i, j \in 1..Len(allTasks) : allTasks[i].label = allTasks[j].label => i = j

\* allTasks[a] is a docker-build task and allTasks[b] a docker-run task whose
\* dependsOn is the list of a's label alone.
C8_Chain(a, b) ==
    /\ allTasks[a].type = "docker-build"
    /\ allTasks[b].type = "docker-run"
    /\ allTasks[b].dependsOn.kind = "labels"
    /\ allTasks[b].dependsOn.labels = <<allTasks[a].label>>

\* C8: in a task list with unique labels holding a build task A and a run task
\* B with dependsOn = [A.label], the run task found for a debug configuration
\* with preLaunchTask = B.label is B, and the build task found for B is A.
C8_BuildRunDebugChain ==
    (UniqueLabels /\ walk.status = "returned") =>
        \A a, b \in 1..Len(allTasks) :
            C8_Chain(a, b) =>
                /\ (walk.entry = "run" /\ walk.debug.preLaunchTask = allTasks[b].label)
                      => walk.result = b
                /\ (walk.entry = "build" /\ walk.name = allTasks[b].label)
                      => walk.result = a

C8_Witness ==
    /\ UniqueLabels
    /\ Len(allTasks) = 2
    /\ C8_Chain(1, 2)
    /\ walk.status = "returned"
    /\ walk.entry = "build"
    /\ walk.name = allTasks[2].label
    /\ walk.result = 1

\* C9: the walk ends within a number of steps bounded by the task set: the
\* activations of recursiveFindTaskByType that are open on tasks never outnumber
\* the tasks (when they do, some task is visited below itself, and the walk,
\* which reads nothing but the node, repeats that visit without end).
C9_TaskActivations == {k \in 1..Len(walk.stack) : walk.stack[k].node >= 1}

C9_StepsBoundedByTaskSet == Cardinality(C9_TaskActivations) <= Len(allTasks)

\* The lookups C10 names: no start node; a preLaunchTask that names no task; a
\* start task of another type whose dependsOn labels all name no task; a run
\* task name that matches no label; a start node of another type without
\* preLaunchTask and without dependsOn.
C10_NoAnswer ==
    \/ walk.entry \in {"direct", "build"} /\ walk.start = NotFound
    \/ /\ walk.entry = "run"
       /\ Truthy(walk.debug.preLaunchTask)
       /\ findTaskByLabel(allTasks, walk.debug.preLaunchTask) = NotFound
    \/ /\ walk.entry = "run"
       /\ ~Truthy(walk.debug.preLaunchTask)
       /\ walk.debug.type # walk.type
    \/ /\ walk.start \in 1..Len(allTasks)
       /\ allTasks[walk.start].type # walk.type
       /\ \/ allTasks[walk.start].dependsOn.kind = "none"
          \/ /\ allTasks[walk.start].dependsOn.kind = "labels"
             /\ \A k \in 1..Len(allTasks[walk.start].dependsOn.labels) :
                   findTaskByLabel(allTasks, allTasks[walk.start].dependsOn.labels[k])
                       = NotFound

\* C10: a walk never raises, and a lookup that has no answer returns NotFound.
C10_NotFoundIsAValue ==
    /\ walk.status # "raised"
    /\ (walk.status = "returned" /\ C10_NoAnswer) => walk.result = NotFound

\* The build-task lookup for a run task whose name matches no stored label.
C10_Witness ==
    /\ walk.status = "returned"
    /\ walk.entry = "build"
    /\ allTasks # <<>>
    /\ walk.start = NotFound
    /\ walk.result = NotFound

-----------------------------------------------------------------------------
(* The dependency walk: claims C11, C19, C20 *)

C11_Labels == allTasks[walk.start].dependsOn.labels

C11_Target(k) == findTaskByLabel(allTasks, C11_Labels[k])

\* Label k names a task of the searched type.
C11_Hit(k) ==
    /\ C11_Target(k) # NotFound
    /\ allTasks[C11_Target(k)].type = walk.type

\* Label k names no task, or a task of another type that has nothing to search.
C11_Fails(k) ==
    \/ C11_Target(k) = NotFound
    \/ /\ allTasks[C11_Target(k)].type # walk.type
       /\ \/ allTasks[C11_Target(k)].dependsOn.kind = "none"
          \/ /\ allTasks[C11_Target(k)].dependsOn.kind = "labels"
             /\ allTasks[C11_Target(k)].dependsOn.labels = <<>>

\* The lookup started on a task of another type whose dependsOn is a label list.
C11_ListWalk ==
    /\ walk.start \in 1..Len(allTasks)
    /\ allTasks[walk.start].type # walk.type
    /\ allTasks[walk.start].dependsOn.kind = "labels"

\* C11: the labels of a dependsOn list are searched in list order: the result is
\* the task under the first label that leads to a task of the searched type,
\* no label after a label that names such a task is ever searched, and
\* NotFound is returned only when no label names one.
C11_FirstMatchWins ==
    C11_ListWalk =>
        /\ (walk.stack # <<>> /\ walk.stack[1].phase = "loop") =>
               \A j \in 1..(walk.stack[1].i - 1) : ~C11_Hit(j)
        /\ walk.status = "returned" =>
               /\ \A k \in 1..Len(C11_Labels) :
                     (C11_Hit(k) /\ \A j \in 1..(k - 1) : C11_Fails(j))
                         => walk.result = C11_Target(k)
               /\ (\A k \in 1..Len(C11_Labels) : C11_Fails(k))
                     => walk.result = NotFound
               /\ walk.result = NotFound
                     => \A k \in 1..Len(C11_Labels) : ~C11_Hit(k)

\* The first label names a task of the searched type and the second names the
\* start task itself: the first is returned and the second never searched.
C11_Witness ==
    /\ C11_ListWalk
    /\ walk.status = "returned"
    /\ Len(C11_Labels) = 2
    /\ C11_Hit(1)
    /\ C11_Target(2) = walk.start
    /\ walk.result = C11_Target(1)

\* C19: a start node that carries a preLaunchTask label is never the result:
\* the walk goes on from the task the label resolves to, whatever the start
\* node's own type; a start node without preLaunchTask is compared by type.
C19_PreLaunchTaskFollowed ==
    walk.entry = "run" =>
        /\ Truthy(walk.debug.preLaunchTask) =>
              /\ walk.status = "returned" => walk.result # DebugNode
              /\ Len(walk.stack) >= 2 =>
                    walk.stack[2].node =
                        findTaskByLabel(allTasks, walk.debug.preLaunchTask)
        /\ (~Truthy(walk.debug.preLaunchTask) /\ walk.status = "returned") =>
              walk.result =
                  (IF walk.debug.type = walk.type THEN DebugNode ELSE NotFound)

\* The debug configuration has the searched type and a preLaunchTask, and the
\* result is the task the label leads to.
C19_Witness ==
    /\ walk.entry = "run"
    /\ walk.status = "returned"
    /\ walk.debug.type = walk.type
    /\ Truthy(walk.debug.preLaunchTask)
    /\ walk.result \in 1..Len(allTasks)
    /\ walk.result = findTaskByLabel(allTasks, walk.debug.preLaunchTask)

\* The lookup started on a task of another type whose dependsOn is a type
\* reference.
C20_TypeWalk ==
    /\ walk.start \in 1..Len(allTasks)
    /\ allTasks[walk.start].type # walk.type
    /\ allTasks[walk.start].dependsOn.kind = "type"

C20_OfReferencedType ==
    {i \in 1..Len(allTasks) :
        allTasks[i].type = allTasks[walk.start].dependsOn.type}

C20_FirstOfType ==
    IF C20_OfReferencedType = {} THEN NotFound ELSE Min(C20_OfReferencedType)

\* C20: from a node whose dependsOn is a type reference the walk goes on from
\* the first task, in declaration order, of the referenced type, and from no
\* other; when the referenced type is the searched one that task is the
\* result, and the result is NotFound when no task has the referenced type.
C20_TypeReferenceFirstTask ==
    C20_TypeWalk =>
        /\ Len(walk.stack) >= 2 =>
              /\ walk.stack[1].phase = "tail"
              /\ walk.stack[2].node = C20_FirstOfType
        /\ walk.status = "returned" =>
              /\ allTasks[walk.start].dependsOn.type = walk.type
                    => walk.result = C20_FirstOfType
              /\ C20_FirstOfType = NotFound => walk.result = NotFound

\* Two tasks have the referenced type; the walk went on from the first, which
\* is not the start task, and has returned.
C20_Witness ==
    /\ C20_TypeWalk
    /\ walk.status = "returned"
    /\ Cardinality(C20_OfReferencedType) >= 2
    /\ C20_FirstOfType # walk.start

-----------------------------------------------------------------------------
(* addTask: claim C12 *)

C12_Existing ==
    {i \in 1..Len(call.before) : call.before[i].label = call.newTask.label}

\* C12: when a stored task has the new task's label and overwrite is not true,
\* addTask returns false, writes nothing and the stored list is what it was;
\* when overwrite is true the (first) entry with that label becomes the new
\* task and nothing else changes; when no stored task has the label the new
\* task is added at the end; in both of these addTask writes and returns true.
C12_LabelKeyedUpsert ==
    call.kind = "addTask" =>
        /\ (C12_Existing # {} /\ call.overwrite # "true") =>
              /\ ~call.result
              /\ ~call.wrote
              /\ allTasks = call.before
        /\ (C12_Existing # {} /\ call.overwrite = "true") =>
              /\ call.result
              /\ call.wrote
              /\ allTasks = [call.before EXCEPT ![Min(C12_Existing)] = call.newTask]
        /\ C12_Existing = {} =>
              /\ call.result
              /\ call.wrote
              /\ allTasks = Append(call.before, call.newTask)

\* A task with the label exists, differs from the new one, overwrite was not
\* passed, and the call was rejected.
C12_Witness ==
    /\ call.kind = "addTask"
    /\ call.overwrite = Undefined
    /\ C12_Existing # {}
    /\ call.before[Min(C12_Existing)] # call.newTask
    /\ ~call.result
    /\ allTasks = call.before

-----------------------------------------------------------------------------
(* Image names: claims C14, C15 *)

\* The image the run options carry and the tag the bound build definition
\* carries, when they are there and not empty.
C14_HasImage ==
    /\ call.runOptions.defined
    /\ call.runOptions.items.dockerRun.defined
    /\ call.runOptions.items.dockerRun.items.image.defined
    /\ call.runOptions.items.dockerRun.items.image.items # <<>>

C14_HasTag ==
    /\ call.context.defined
    /\ call.context.items.buildDefinition.defined
    /\ call.context.items.buildDefinition.items.dockerBuild.defined
    /\ call.context.items.buildDefinition.items.dockerBuild.items.tag.defined
    /\ call.context.items.buildDefinition.items.dockerBuild.items.tag.items # <<>>

\* C14: inferImageName returns the run options' image when it is not empty,
\* whatever the build tag and the name hint; otherwise the bound build
\* definition's tag when it is not empty; otherwise the default image name
\* computed from the name hint.
C14_ImagePrecedence ==
    call.kind = "inferImageName" =>
        /\ C14_HasImage =>
              call.result = call.runOptions.items.dockerRun.items.image.items
        /\ (~C14_HasImage /\ C14_HasTag) =>
              call.result =
                  call.context.items.buildDefinition.items.dockerBuild.items.tag.items
        /\ (~C14_HasImage /\ ~C14_HasTag) =>
              call.result = getDefaultImageName(call.nameHint, call.tag)

\* Image "x", build tag "y" and a name hint: "x".
C14_Witness ==
    /\ call.kind = "inferImageName"
    /\ C14_HasImage
    /\ C14_HasTag
    /\ call.nameHint # <<>>
    /\ call.result = <<"x">>

C15_Tag == IF call.tag.defined THEN call.tag.items ELSE <<"l", "a", "t", "e", "s", "t">>

C15_Name == SubSeq(call.result, 1, Len(call.result) - Len(C15_Tag) - 1)

C15_Kept(c) == c \in {"M", "y", "A", "p", "7"}

C15_Lower(c) == IF c = "M" THEN "m" ELSE IF c = "A" THEN "a" ELSE c

\* C15: the default image name is a name, ':' and the tag ('latest' when none
\* is given); the name is the hint's letters and digits, in order and
\* lowercased, and 'image' when the hint has none.
C15_DefaultImageName ==
    call.kind = "getDefaultImageName" =>
        LET kept == SelectSeq(call.nameHint, C15_Kept)
        IN  /\ call.result = C15_Name \o <<":">> \o C15_Tag
            /\ kept = <<>> => C15_Name = <<"i", "m", "a", "g", "e">>
            /\ kept # <<>> =>
                  /\ Len(C15_Name) = Len(kept)
                  /\ \A i \in 1..Len(kept) : C15_Name[i] = C15_Lower(kept[i])

\* "My!" gives "my:latest".
C15_Witness ==
    /\ call.kind = "getDefaultImageName"
    /\ call.nameHint = <<"M", "y", "!">>
    /\ ~call.tag.defined
    /\ call.result = <<"m", "y", ":", "l", "a", "t", "e", "s", "t">>

-----------------------------------------------------------------------------
(* Resolution requests: claims C13, C16 - C18 *)

C16_Resolved(kind) == call.kind = kind /\ ~call.threw

C16_BuildFlags == {"--pull", "-f", "--build-arg", "--label", "-t", "--target"}

C16_RunFlags ==
    {"-P", "--name", "--network", "--network-alias", "-e", "--env-file", "--label",
     "-v", "-p", "--add-host", "--entrypoint"}

C16_FlagPositions(flags) ==
    {i \in 1..Len(call.commandLine) : \E f \in flags : call.commandLine[i] = <<f>>}

\* C16: a build command line starts with docker build --rm, and when there is
\* a context it is the last token, after every flag; a run command line starts
\* with docker run -dt, its last tokens are the command's, and when there is
\* an image it is the token before them, after every flag.
C16_TokenOrder ==
    /\ C16_Resolved("docker-build") =>
          /\ SubSeq(call.commandLine, 1, 3) = << <<"docker">>, <<"build">>, <<"--rm">> >>
          /\ Truthy(call.options.context) =>
                /\ call.commandLine[Len(call.commandLine)] = <<call.options.context>>
                /\ \A i \in C16_FlagPositions(C16_BuildFlags) :
                      i < Len(call.commandLine)
    /\ C16_Resolved("docker-run") =>
          LET n == Len(call.commandLine)
              p == n - Len(call.options.command.items)
          IN  /\ SubSeq(call.commandLine, 1, 3) = << <<"docker">>, <<"run">>, <<"-dt">> >>
              /\ p >= 3
              /\ SubSeq(call.commandLine, p + 1, n) = call.options.command.items
              /\ Truthy(call.options.image) =>
                    /\ call.commandLine[p] = <<call.options.image>>
                    /\ \A i \in C16_FlagPositions(C16_RunFlags) : i < p

\* A run command line with flags, an image and a command.
C16_Witness ==
    /\ C16_Resolved("docker-run")
    /\ Truthy(call.options.image)
    /\ call.options.command.items # <<>>
    /\ Cardinality(C16_FlagPositions(C16_RunFlags)) >= 11
    /\ call.commandLine[Len(call.commandLine)] = <<"start">>

C17_Has(flag) == C16_FlagPositions({flag}) # {}

\* C17: a field that is absent from the resolved options leaves its flag out
\* of the command line.
C17_AbsentMeansNoFlag ==
    /\ C16_Resolved("docker-build") =>
          /\ call.options.pull = Undefined => ~C17_Has("--pull")
          /\ call.options.dockerfile = Undefined => ~C17_Has("-f")
          /\ ~call.options.args.defined => ~C17_Has("--build-arg")
          /\ ~call.options.labels.defined => ~C17_Has("--label")
          /\ call.options.tag = Undefined => ~C17_Has("-t")
          /\ call.options.target = Undefined => ~C17_Has("--target")
    /\ C16_Resolved("docker-run") =>
          /\ call.options.portsPublishAll = Undefined => ~C17_Has("-P")
          /\ call.options.containerName = Undefined => ~C17_Has("--name")
          /\ call.options.network = Undefined => ~C17_Has("--network")
          /\ call.options.networkAlias = Undefined => ~C17_Has("--network-alias")
          /\ ~call.options.env.defined => ~C17_Has("-e")
          /\ ~call.options.envFiles.defined => ~C17_Has("--env-file")
          /\ ~call.options.labels.defined => ~C17_Has("--label")
          /\ ~call.options.volumes.defined => ~C17_Has("-v")
          /\ ~call.options.ports.defined => ~C17_Has("-p")
          /\ ~call.options.extraHosts.defined => ~C17_Has("--add-host")
          /\ call.options.entrypoint = Undefined => ~C17_Has("--entrypoint")

C18_Flags == C16_FlagPositions({"--build-arg"})

-----------------------------------------------------------------------------
(* The dependency walk: claims C21, C22 *)

C21_WithLabel(label) == {i \in 1..Len(allTasks) : allTasks[i].label = label}

C21_WithType(type) == {i \in 1..Len(allTasks) : allTasks[i].type = type}

C21_Lowest(S) == IF S = {} THEN NotFound ELSE Min(S)

\* The tasks that the reference which opened activation k (k >= 2) names: by
\* the preLaunchTask label, by the dependsOn label at hand, or by the
\* dependsOn type.
C21_Named(k) ==
    LET parent == walk.stack[k - 1]
        node == NodeOf(parent.node)
    IN  IF Truthy(node.preLaunchTask) THEN C21_WithLabel(node.preLaunchTask)
        ELSE IF parent.phase = "loop"
        THEN C21_WithLabel(node.dependsOn.labels[parent.i])
        ELSE C21_WithType(node.dependsOn.type)

\* C21: every activation the walk opens through a label or a type is on the
\* task with the lowest index among those carrying it (on no task when none
\* carries it), and the build lookup starts on the lowest-indexed task
\* carrying the run task's name.
C21_DeclarationOrder ==
    /\ \A k \in 2..Len(walk.stack) :
          walk.stack[k].node = C21_Lowest(C21_Named(k))
    /\ walk.entry = "build" => walk.start = C21_Lowest(C21_WithLabel(walk.name))

\* Two tasks carry the preLaunchTask label; the later one has the searched
\* type, the first does not and leads nowhere: the result is NotFound.
C21_Witness ==
    /\ walk.entry = "run"
    /\ walk.status = "returned"
    /\ Truthy(walk.debug.preLaunchTask)
    /\ Cardinality(C21_WithLabel(walk.debug.preLaunchTask)) = 2
    /\ allTasks[1].type # walk.type
    /\ allTasks[1].dependsOn.kind = "none"
    /\ allTasks[2].type = walk.type
    /\ walk.result = NotFound

\* The nodes a node refers to: the tasks carrying its preLaunchTask label, one
\* of its dependsOn labels, or its dependsOn type.
C22_Refers(n) ==
    IF n = NotFound THEN {}
    ELSE LET node == NodeOf(n)
         IN  (IF Truthy(node.preLaunchTask)
              THEN C21_WithLabel(node.preLaunchTask) ELSE {})
             \cup UNION {C21_WithLabel(node.dependsOn.labels[i]) :
                            i \in 1..Len(node.dependsOn.labels)}
             \cup (IF node.dependsOn.kind = "type"
                   THEN C21_WithType(node.dependsOn.type) ELSE {})

RECURSIVE C22_Closure(_, _)
C22_Closure(S, n) ==
    IF n = 0 THEN S
    ELSE C22_Closure(S \cup UNION {C22_Refers(x) : x \in S}, n - 1)

C22_Reachable == C22_Closure({walk.start}, Len(allTasks))

C22_TypeOf(n) == IF n = DebugNode THEN walk.debug.type ELSE allTasks[n].type

\* C22: a walk that returns a node returns one of the searched type that is
\* the start node or is reachable from it through preLaunchTask / dependsOn
\* references; the run lookup searches docker-run, the build lookup
\* docker-build.
C22_ResultTypedAndReachable ==
    /\ walk.entry = "run" => walk.type = "docker-run"
    /\ walk.entry = "build" => walk.type = "docker-build"
    /\ (walk.status = "returned" /\ walk.result # NotFound) =>
          /\ C22_TypeOf(walk.result) = walk.type
          /\ walk.result \in C22_Reachable

\* The run lookup returned a task two references away from the debug
\* configuration.
C22_Witness ==
    /\ walk.entry = "run"
    /\ walk.status = "returned"
    /\ walk.result \in 1..Len(allTasks)
    /\ walk.result \notin C22_Refers(DebugNode)
    /\ allTasks[walk.result].type = "docker-run"

-----------------------------------------------------------------------------
(* Resolution requests: claims C23, C27, C28, C29 *)

\* C23: a task resolved without a workspace-folder scope fails with the scope
\* error whatever platform its definition classifies as; no helper is
\* invoked and no command line is produced.
C23_NoScopeFailsFirst ==
    (call.kind \in TaskKinds /\ call.scope = Undefined) =>
        /\ call.threw
        /\ call.error = UnableToDetermineScope
        /\ call.helper = "none"
        /\ call.commandLine = <<>>

C23_Witness ==
    /\ call.kind \in TaskKinds
    /\ call.scope = Undefined
    /\ call.platform = "unknown"
    /\ call.error = UnableToDetermineScope

\* C27: a resolved run task's command line carries -P exactly when
\* portsPublishAll is true, or is unset while ports is absent or empty.
C27_PublishAllExactly ==
    C16_Resolved("docker-run") =>
        LET o == call.options
        IN  C17_Has("-P") <=>
                \/ o.portsPublishAll = "true"
                \/ /\ o.portsPublishAll = Undefined
                   /\ (~o.ports.defined \/ Len(o.ports.items) = 0)

\* An empty ports list with portsPublishAll unset publishes all ports.
C27_Witness ==
    /\ C16_Resolved("docker-run")
    /\ call.options.portsPublishAll = Undefined
    /\ call.options.ports.defined
    /\ call.options.ports.items = <<>>
    /\ C17_Has("-P")

\* C28: when the platform helper yields no configuration, the request returns
\* no configuration, registers no observer and raises no error.
C28_CancelledIsQuiet ==
    (call.kind = "debug" /\ call.helper # "none" /\ ~call.helperResult.defined) =>
        /\ ~call.threw
        /\ call.error = ""
        /\ ~call.resolved.defined
        /\ ~call.registered
        /\ observers = <<>>
        /\ sessions = <<>>

C28_Witness ==
    /\ call.kind = "debug"
    /\ call.helper = "node"
    /\ ~call.helperResult.defined
    /\ ~call.threw
    /\ observers = <<>>

\* C29: a request that registers an observer returns a configuration whose
\* removeContainerAfterDebug is true, so the observer matches its own
\* session; a request that registers none returns removeContainerAfterDebug
\* as the helper gave it.
C29_RegisteredMeansTrue ==
    (call.kind = "debug" /\ ~call.threw) =>
        /\ call.registered =>
              /\ call.resolved.removeContainerAfterDebug = "true"
              /\ Len(observers) = 1
              /\ ObserverMatches(call.resolved, observers[1].watch)
        /\ ~call.registered =>
              call.resolved.removeContainerAfterDebug =
                  call.helperResult.removeContainerAfterDebug

\* The helper left removeContainerAfterDebug unset and named a container.
C29_Witness ==
    /\ call.kind = "debug"
    /\ call.registered
    /\ call.helperResult.removeContainerAfterDebug = Undefined
    /\ call.resolved.removeContainerAfterDebug = "true"

-----------------------------------------------------------------------------
(* addTask and the scaffolding entry points: claims C24, C25, C26 *)

\* C24: starting from a stored list whose labels are pairwise distinct, the
\* labels stay pairwise distinct after every awaited addTask call, whatever
\* the tasks and overwrite flags of the calls.
C24_LabelsStayUnique ==
    \A i, j \in 1..Len(allTasks) :
        allTasks[i].label = allTasks[j].label => i = j

\* The third call of a sequence replaced a stored task while another label
\* was stored next to it.
C24_Witness ==
    /\ call.kind = "addTask"
    /\ call.n >= 3
    /\ call.overwrite = "true"
    /\ Len(allTasks) = 2
    /\ allTasks # call.before

\* C25: addTask keeps the stored order: a replacement leaves the length and
\* every other entry as they were and puts the new task at the index of the
\* entry it replaces; an insertion leaves every entry as it was and puts the
\* new task after the last one.
C25_OrderKept ==
    call.kind = "addTask" =>
        /\ \A i \in 1..Len(call.before) :
              allTasks[i] # call.before[i] =>
                  /\ i = Min(C12_Existing)
                  /\ allTasks[i] = call.newTask
        /\ IF C12_Existing # {}
           THEN Len(allTasks) = Len(call.before)
           ELSE /\ Len(allTasks) = Len(call.before) + 1
                /\ allTasks[Len(allTasks)] = call.newTask

\* The first of two stored tasks was replaced by a different one.
C25_Witness ==
    /\ call.kind = "addTask"
    /\ call.overwrite = "true"
    /\ Len(call.before) = 2
    /\ C12_Existing = {1}
    /\ call.before[1] # call.newTask
    /\ allTasks = <<call.newTask, call.before[2]>>

\* C26: initializeBuildTasks / initializeRunTasks change no stored task: what
\* was stored stays where it was, and a call that throws stores nothing.
C26_InitializeNeverOverwrites ==
    call.kind = "initialize" =>
        /\ Len(allTasks) >= Len(call.before)
        /\ \A i \in 1..Len(call.before) : allTasks[i] = call.before[i]
        /\ call.threw => allTasks = call.before
        /\ \A j \in 1..Len(call.provided) :
              \E i \in 1..Len(allTasks) : allTasks[i].label = call.provided[j].label

\* A helper provided a task whose label was stored with another definition,
\* and one whose label was new: the first was left alone, the second added.
C26_Witness ==
    /\ call.kind = "initialize"
    /\ ~call.threw
    /\ Len(call.before) = 1
    /\ Len(call.provided) = 2
    /\ call.provided[1].label = call.before[1].label
    /\ call.provided[1] # call.before[1]
    /\ allTasks = <<call.before[1], call.provided[2]>>

=============================================================================
